---- MODULE Spec2Model ----
(***************************************************************************)
(* State-machine model of tlgbot.py: the in-memory session store, the      *)
(* pricing function and the handlers that the Telegram transport calls     *)
(* for button presses, text messages, files and commands.                  *)
(*                                                                         *)
(* Conventions                                                             *)
(*  - A Python dict is a function; its key set is its DOMAIN.              *)
(*  - Prices are integers in hundredths of a euro; base prices and         *)
(*    multipliers are integers in tenths (18.0 -> 180, 1.8 -> 18), so      *)
(*    base * multiplier * pages is a number of hundredths.                 *)
(*  - A text message is a sequence of one-character strings, so that       *)
(*    strip() and int() are computed; a callback payload is a sequence of  *)
(*    tokens, the prefixes "level_", "deadline_", "crypto_" being tokens.  *)
(*  - A handler is an operator on a context [S, out, swept, raised]: the   *)
(*    store, the outbound requests made so far, whether the expiry sweep   *)
(*    ran, and whether an exception is propagating.                        *)
(*  - The k-th outbound request of one event fails iff k is in the         *)
(*    event's set `fail`; a failed request raises in the handler.  The     *)
(*    acknowledgement of a button press is request 0.                      *)
(***************************************************************************)
EXTENDS Integers, Sequences, FiniteSets, TLC

VARIABLES
    sessions,   \* SessionManager.sessions: user id -> UserSession
    now,        \* the wall clock read by datetime.now(), in seconds
    last,       \* history: the last inbound event and what it found
    out,        \* history: the outbound requests of the last event
    script      \* the inputs and position of a scripted run (SpecPrice, SpecFlow)

vars == <<sessions, now, last, out, script>>

(***************************** Config *************************************)

MAX_SESSIONS == 100
SESSION_TIMEOUT == 1800
MAX_FILES_PER_ORDER == 5
ADMIN_ID == 900
MAX_FILE_SIZE == 20 * 1024 * 1024
CEILING_PER_PAGE == 5000
DEFAULT_MULTIPLIER == 10
DEFAULT_PAGES == 1
MAX_PAGES == 50

\* Python's None where a string is expected (dict.get of a missing key).
None == "<None>"

EmptyDict == [k \in {} |-> None]

(************************** AcademicConfig ********************************)

\* base_price of each level, in tenths of a euro.
LEVELS == ("lycee" :> 180) @@ ("bachelor" :> 220) @@ ("master" :> 260) @@ ("phd" :> 320)

\* multiplier of each deadline, in tenths.
DEADLINES == ("6h" :> 18) @@ ("12h" :> 17) @@ ("24h" :> 15) @@ ("48h" :> 13)
             @@ ("3d" :> 12) @@ ("7d" :> 10) @@ ("14d" :> 9)

CRYPTO == {"BTC", "ETH", "USDT"}

(***************************** dict helpers *******************************)

\* dict.get(key, default)
DictGet(d, key, default) == IF key \in DOMAIN d THEN d[key] ELSE default

\* dict.update(patch): the patch's keys overwrite, the others keep their value.
DictUpdate(d, patch) ==
    [k \in DOMAIN d \cup DOMAIN patch |-> IF k \in DOMAIN patch THEN patch[k] ELSE d[k]]

Min(a, b) == IF a <= b THEN a ELSE b

(****************************** UserSession *******************************)

STEPS == {"menu", "order_subject", "order_level", "order_pages", "order_deadline",
          "order_instructions", "order_files", "support"}

NewSession(user_id, step, t) ==
    [user_id |-> user_id, step |-> step, data |-> EmptyDict,
     created_at |-> t, last_activity |-> t, files |-> <<>>]

FileEntry(file_id, file_name, file_size, t) ==
    [file_id |-> file_id, file_name |-> file_name, file_size |-> file_size, uploaded_at |-> t]

\* UserSession.add_file: whether the file is taken.
add_file_ok(session) == Len(session.files) < MAX_FILES_PER_ORDER

\* UserSession.add_file: the session afterwards.
add_file(session, file_id, file_name, file_size, t) ==
    IF Len(session.files) < MAX_FILES_PER_ORDER
    THEN [session EXCEPT !.files = Append(@, FileEntry(file_id, file_name, file_size, t))]
    ELSE session

(***************************** SessionManager *****************************)

\* A variant of the expiry test that also drops a session idle for exactly the
\* timeout.
Expired_inclusive(session, t) == t - session.last_activity >= SESSION_TIMEOUT

Expired(session, t) == t - session.last_activity > SESSION_TIMEOUT

\* A variant of the sweep that empties the store.
cleanup_old_sessions_all(S, t) == [uid \in {} |-> S[uid]]

cleanup_old_sessions(S, t) == [uid \in {x \in DOMAIN S : ~Expired(S[x], t)} |-> S[uid]]

\* A variant of the guard that sweeps a store holding exactly MAX_SESSIONS.
SweepDue_at_capacity(S) == Cardinality(DOMAIN S) >= MAX_SESSIONS

\* The guard of get_session's sweep.
SweepDue(S) == Cardinality(DOMAIN S) > MAX_SESSIONS

\* session.last_activity = now, when the user has a session.
Touch(S, user_id, t) ==
    IF user_id \in DOMAIN S THEN [S EXCEPT ![user_id].last_activity = t] ELSE S

\* get_session: the store afterwards; the session returned is S'[user_id]
\* when user_id is in DOMAIN S', and None otherwise.
get_session(S, user_id, t) ==
    Touch(IF SweepDue(S) THEN cleanup_old_sessions(S, t) ELSE S, user_id, t)

\* A variant of create_session that keeps a session the user already has.
create_session_keeping(S, user_id, step, t) ==
    IF user_id \in DOMAIN S
    THEN S
    ELSE [uid \in DOMAIN S \cup {user_id} |->
             IF uid = user_id THEN NewSession(user_id, step, t) ELSE S[uid]]

create_session(S, user_id, step, t) ==
    [uid \in DOMAIN S \cup {user_id} |->
        IF uid = user_id THEN NewSession(user_id, step, t) ELSE S[uid]]

\* `get_session(user_id) or create_session(user_id)`, on the store after the get.
SessionOrCreate(S, user_id, t) ==
    IF user_id \in DOMAIN S THEN S ELSE create_session(S, user_id, "menu", t)

\* A variant of update_session's body that assigns the patch instead of merging
\* it.
Patched_assigning(session, step, data, t) ==
    [session EXCEPT !.step = IF step # None /\ step # "" THEN step ELSE @,
                    !.data = IF DOMAIN data # {} THEN data ELSE @,
                    !.last_activity = t]

\* The body of update_session on the session found: step None and an empty patch
\* are skipped.
Patched(session, step, data, t) ==
    [session EXCEPT !.step = IF step # None /\ step # "" THEN step ELSE @,
                    !.data = IF DOMAIN data # {} THEN DictUpdate(@, data) ELSE @,
                    !.last_activity = t]

PatchSession(S, user_id, step, data, t) ==
    [S EXCEPT ![user_id] = Patched(@, step, data, t)]

update_session(S, user_id, step, data, t) ==
    PatchSession(SessionOrCreate(get_session(S, user_id, t), user_id, t),
                 user_id, step, data, t)

\* A variant of clear_session that empties the session and leaves it in the store.
clear_session_resetting(S, user_id) ==
    [uid \in DOMAIN S |-> IF uid = user_id THEN NewSession(uid, "menu", 0) ELSE S[uid]]

clear_session(S, user_id) == [uid \in DOMAIN S \ {user_id} |-> S[uid]]

(********************************* Utils **********************************)

\* The multiplier of DEADLINES.get(deadline, ('', 1.0)).
Multiplier(deadline) ==
    IF deadline \in DOMAIN DEADLINES THEN DEADLINES[deadline] ELSE DEFAULT_MULTIPLIER

\* A variant of calculate_price without the ceiling.
calculate_price_uncapped(level, deadline, pages) ==
    IF level \notin DOMAIN LEVELS THEN 0 ELSE LEVELS[level] * Multiplier(deadline) * pages

\* Utils.calculate_price, in hundredths of a euro.
calculate_price(level, deadline, pages) ==
    IF level \notin DOMAIN LEVELS
    THEN 0
    ELSE Min(LEVELS[level] * Multiplier(deadline) * pages, CEILING_PER_PAGE * pages)

(**************************** text and payloads ***************************)

\* A text is a sequence of characters.  A character up to U+00FF is the string
\* holding it; a character above U+00FF is the string naming its code point, as
\* "U+0665" for ARABIC-INDIC DIGIT FIVE.

\* The characters str.strip() removes: space, tab, line feed, carriage return,
\* form feed, vertical tab (U+000B), NEXT LINE (U+0085), NO-BREAK SPACE (U+00A0),
\* the separators U+001C..U+001F, and the Unicode spaces above U+00FF.
WHITESPACE ==
    {" ", "\t", "\n", "\r", "\f", "", "", " ", "", "", "", "",
     "U+1680", "U+2000", "U+2001", "U+2002", "U+2003", "U+2004", "U+2005", "U+2006",
     "U+2007", "U+2008", "U+2009", "U+200A", "U+2028", "U+2029", "U+202F", "U+205F",
     "U+3000"}

\* The characters int() skips around a numeral: the same without the separators
\* U+001C..U+001F.
INT_WHITESPACE == WHITESPACE \ {"", "", "", ""}

\* The decimal digits int() reads (Unicode category Nd), one row per script,
\* each row holding the digits zero to nine in order.
DECIMAL_DIGITS ==
    <<
    <<"0", "1", "2", "3", "4", "5", "6", "7", "8", "9">>,
    <<"U+0660", "U+0661", "U+0662", "U+0663", "U+0664", "U+0665", "U+0666", "U+0667", "U+0668", "U+0669">>,
    <<"U+06F0", "U+06F1", "U+06F2", "U+06F3", "U+06F4", "U+06F5", "U+06F6", "U+06F7", "U+06F8", "U+06F9">>,
    <<"U+07C0", "U+07C1", "U+07C2", "U+07C3", "U+07C4", "U+07C5", "U+07C6", "U+07C7", "U+07C8", "U+07C9">>,
    <<"U+0966", "U+0967", "U+0968", "U+0969", "U+096A", "U+096B", "U+096C", "U+096D", "U+096E", "U+096F">>,
    <<"U+09E6", "U+09E7", "U+09E8", "U+09E9", "U+09EA", "U+09EB", "U+09EC", "U+09ED", "U+09EE", "U+09EF">>,
    <<"U+0A66", "U+0A67", "U+0A68", "U+0A69", "U+0A6A", "U+0A6B", "U+0A6C", "U+0A6D", "U+0A6E", "U+0A6F">>,
    <<"U+0AE6", "U+0AE7", "U+0AE8", "U+0AE9", "U+0AEA", "U+0AEB", "U+0AEC", "U+0AED", "U+0AEE", "U+0AEF">>,
    <<"U+0B66", "U+0B67", "U+0B68", "U+0B69", "U+0B6A", "U+0B6B", "U+0B6C", "U+0B6D", "U+0B6E", "U+0B6F">>,
    <<"U+0BE6", "U+0BE7", "U+0BE8", "U+0BE9", "U+0BEA", "U+0BEB", "U+0BEC", "U+0BED", "U+0BEE", "U+0BEF">>,
    <<"U+0C66", "U+0C67", "U+0C68", "U+0C69", "U+0C6A", "U+0C6B", "U+0C6C", "U+0C6D", "U+0C6E", "U+0C6F">>,
    <<"U+0CE6", "U+0CE7", "U+0CE8", "U+0CE9", "U+0CEA", "U+0CEB", "U+0CEC", "U+0CED", "U+0CEE", "U+0CEF">>,
    <<"U+0D66", "U+0D67", "U+0D68", "U+0D69", "U+0D6A", "U+0D6B", "U+0D6C", "U+0D6D", "U+0D6E", "U+0D6F">>,
    <<"U+0DE6", "U+0DE7", "U+0DE8", "U+0DE9", "U+0DEA", "U+0DEB", "U+0DEC", "U+0DED", "U+0DEE", "U+0DEF">>,
    <<"U+0E50", "U+0E51", "U+0E52", "U+0E53", "U+0E54", "U+0E55", "U+0E56", "U+0E57", "U+0E58", "U+0E59">>,
    <<"U+0ED0", "U+0ED1", "U+0ED2", "U+0ED3", "U+0ED4", "U+0ED5", "U+0ED6", "U+0ED7", "U+0ED8", "U+0ED9">>,
    <<"U+0F20", "U+0F21", "U+0F22", "U+0F23", "U+0F24", "U+0F25", "U+0F26", "U+0F27", "U+0F28", "U+0F29">>,
    <<"U+1040", "U+1041", "U+1042", "U+1043", "U+1044", "U+1045", "U+1046", "U+1047", "U+1048", "U+1049">>,
    <<"U+1090", "U+1091", "U+1092", "U+1093", "U+1094", "U+1095", "U+1096", "U+1097", "U+1098", "U+1099">>,
    <<"U+17E0", "U+17E1", "U+17E2", "U+17E3", "U+17E4", "U+17E5", "U+17E6", "U+17E7", "U+17E8", "U+17E9">>,
    <<"U+1810", "U+1811", "U+1812", "U+1813", "U+1814", "U+1815", "U+1816", "U+1817", "U+1818", "U+1819">>,
    <<"U+1946", "U+1947", "U+1948", "U+1949", "U+194A", "U+194B", "U+194C", "U+194D", "U+194E", "U+194F">>,
    <<"U+19D0", "U+19D1", "U+19D2", "U+19D3", "U+19D4", "U+19D5", "U+19D6", "U+19D7", "U+19D8", "U+19D9">>,
    <<"U+1A80", "U+1A81", "U+1A82", "U+1A83", "U+1A84", "U+1A85", "U+1A86", "U+1A87", "U+1A88", "U+1A89">>,
    <<"U+1A90", "U+1A91", "U+1A92", "U+1A93", "U+1A94", "U+1A95", "U+1A96", "U+1A97", "U+1A98", "U+1A99">>,
    <<"U+1B50", "U+1B51", "U+1B52", "U+1B53", "U+1B54", "U+1B55", "U+1B56", "U+1B57", "U+1B58", "U+1B59">>,
    <<"U+1BB0", "U+1BB1", "U+1BB2", "U+1BB3", "U+1BB4", "U+1BB5", "U+1BB6", "U+1BB7", "U+1BB8", "U+1BB9">>,
    <<"U+1C40", "U+1C41", "U+1C42", "U+1C43", "U+1C44", "U+1C45", "U+1C46", "U+1C47", "U+1C48", "U+1C49">>,
    <<"U+1C50", "U+1C51", "U+1C52", "U+1C53", "U+1C54", "U+1C55", "U+1C56", "U+1C57", "U+1C58", "U+1C59">>,
    <<"U+A620", "U+A621", "U+A622", "U+A623", "U+A624", "U+A625", "U+A626", "U+A627", "U+A628", "U+A629">>,
    <<"U+A8D0", "U+A8D1", "U+A8D2", "U+A8D3", "U+A8D4", "U+A8D5", "U+A8D6", "U+A8D7", "U+A8D8", "U+A8D9">>,
    <<"U+A900", "U+A901", "U+A902", "U+A903", "U+A904", "U+A905", "U+A906", "U+A907", "U+A908", "U+A909">>,
    <<"U+A9D0", "U+A9D1", "U+A9D2", "U+A9D3", "U+A9D4", "U+A9D5", "U+A9D6", "U+A9D7", "U+A9D8", "U+A9D9">>,
    <<"U+A9F0", "U+A9F1", "U+A9F2", "U+A9F3", "U+A9F4", "U+A9F5", "U+A9F6", "U+A9F7", "U+A9F8", "U+A9F9">>,
    <<"U+AA50", "U+AA51", "U+AA52", "U+AA53", "U+AA54", "U+AA55", "U+AA56", "U+AA57", "U+AA58", "U+AA59">>,
    <<"U+ABF0", "U+ABF1", "U+ABF2", "U+ABF3", "U+ABF4", "U+ABF5", "U+ABF6", "U+ABF7", "U+ABF8", "U+ABF9">>,
    <<"U+FF10", "U+FF11", "U+FF12", "U+FF13", "U+FF14", "U+FF15", "U+FF16", "U+FF17", "U+FF18", "U+FF19">>,
    <<"U+104A0", "U+104A1", "U+104A2", "U+104A3", "U+104A4", "U+104A5", "U+104A6", "U+104A7", "U+104A8", "U+104A9">>,
    <<"U+10D30", "U+10D31", "U+10D32", "U+10D33", "U+10D34", "U+10D35", "U+10D36", "U+10D37", "U+10D38", "U+10D39">>,
    <<"U+11066", "U+11067", "U+11068", "U+11069", "U+1106A", "U+1106B", "U+1106C", "U+1106D", "U+1106E", "U+1106F">>,
    <<"U+110F0", "U+110F1", "U+110F2", "U+110F3", "U+110F4", "U+110F5", "U+110F6", "U+110F7", "U+110F8", "U+110F9">>,
    <<"U+11136", "U+11137", "U+11138", "U+11139", "U+1113A", "U+1113B", "U+1113C", "U+1113D", "U+1113E", "U+1113F">>,
    <<"U+111D0", "U+111D1", "U+111D2", "U+111D3", "U+111D4", "U+111D5", "U+111D6", "U+111D7", "U+111D8", "U+111D9">>,
    <<"U+112F0", "U+112F1", "U+112F2", "U+112F3", "U+112F4", "U+112F5", "U+112F6", "U+112F7", "U+112F8", "U+112F9">>,
    <<"U+11450", "U+11451", "U+11452", "U+11453", "U+11454", "U+11455", "U+11456", "U+11457", "U+11458", "U+11459">>,
    <<"U+114D0", "U+114D1", "U+114D2", "U+114D3", "U+114D4", "U+114D5", "U+114D6", "U+114D7", "U+114D8", "U+114D9">>,
    <<"U+11650", "U+11651", "U+11652", "U+11653", "U+11654", "U+11655", "U+11656", "U+11657", "U+11658", "U+11659">>,
    <<"U+116C0", "U+116C1", "U+116C2", "U+116C3", "U+116C4", "U+116C5", "U+116C6", "U+116C7", "U+116C8", "U+116C9">>,
    <<"U+11730", "U+11731", "U+11732", "U+11733", "U+11734", "U+11735", "U+11736", "U+11737", "U+11738", "U+11739">>,
    <<"U+118E0", "U+118E1", "U+118E2", "U+118E3", "U+118E4", "U+118E5", "U+118E6", "U+118E7", "U+118E8", "U+118E9">>,
    <<"U+11950", "U+11951", "U+11952", "U+11953", "U+11954", "U+11955", "U+11956", "U+11957", "U+11958", "U+11959">>,
    <<"U+11C50", "U+11C51", "U+11C52", "U+11C53", "U+11C54", "U+11C55", "U+11C56", "U+11C57", "U+11C58", "U+11C59">>,
    <<"U+11D50", "U+11D51", "U+11D52", "U+11D53", "U+11D54", "U+11D55", "U+11D56", "U+11D57", "U+11D58", "U+11D59">>,
    <<"U+11DA0", "U+11DA1", "U+11DA2", "U+11DA3", "U+11DA4", "U+11DA5", "U+11DA6", "U+11DA7", "U+11DA8", "U+11DA9">>,
    <<"U+16A60", "U+16A61", "U+16A62", "U+16A63", "U+16A64", "U+16A65", "U+16A66", "U+16A67", "U+16A68", "U+16A69">>,
    <<"U+16AC0", "U+16AC1", "U+16AC2", "U+16AC3", "U+16AC4", "U+16AC5", "U+16AC6", "U+16AC7", "U+16AC8", "U+16AC9">>,
    <<"U+16B50", "U+16B51", "U+16B52", "U+16B53", "U+16B54", "U+16B55", "U+16B56", "U+16B57", "U+16B58", "U+16B59">>,
    <<"U+1D7CE", "U+1D7CF", "U+1D7D0", "U+1D7D1", "U+1D7D2", "U+1D7D3", "U+1D7D4", "U+1D7D5", "U+1D7D6", "U+1D7D7">>,
    <<"U+1D7D8", "U+1D7D9", "U+1D7DA", "U+1D7DB", "U+1D7DC", "U+1D7DD", "U+1D7DE", "U+1D7DF", "U+1D7E0", "U+1D7E1">>,
    <<"U+1D7E2", "U+1D7E3", "U+1D7E4", "U+1D7E5", "U+1D7E6", "U+1D7E7", "U+1D7E8", "U+1D7E9", "U+1D7EA", "U+1D7EB">>,
    <<"U+1D7EC", "U+1D7ED", "U+1D7EE", "U+1D7EF", "U+1D7F0", "U+1D7F1", "U+1D7F2", "U+1D7F3", "U+1D7F4", "U+1D7F5">>,
    <<"U+1D7F6", "U+1D7F7", "U+1D7F8", "U+1D7F9", "U+1D7FA", "U+1D7FB", "U+1D7FC", "U+1D7FD", "U+1D7FE", "U+1D7FF">>,
    <<"U+1E140", "U+1E141", "U+1E142", "U+1E143", "U+1E144", "U+1E145", "U+1E146", "U+1E147", "U+1E148", "U+1E149">>,
    <<"U+1E2F0", "U+1E2F1", "U+1E2F2", "U+1E2F3", "U+1E2F4", "U+1E2F5", "U+1E2F6", "U+1E2F7", "U+1E2F8", "U+1E2F9">>,
    <<"U+1E950", "U+1E951", "U+1E952", "U+1E953", "U+1E954", "U+1E955", "U+1E956", "U+1E957", "U+1E958", "U+1E959">>,
    <<"U+1FBF0", "U+1FBF1", "U+1FBF2", "U+1FBF3", "U+1FBF4", "U+1FBF5", "U+1FBF6", "U+1FBF7", "U+1FBF8", "U+1FBF9">>
    >>

\* The value of every character int() reads as a decimal digit.
DIGIT ==
    [c \in UNION {{DECIMAL_DIGITS[k][i] : i \in 1..10} : k \in DOMAIN DECIMAL_DIGITS} |->
        CHOOSE d \in 0..9 : \E k \in DOMAIN DECIMAL_DIGITS : DECIMAL_DIGITS[k][d + 1] = c]

RECURSIVE LStrip(_)
LStrip(s) == IF s # <<>> /\ Head(s) \in WHITESPACE THEN LStrip(Tail(s)) ELSE s

RECURSIVE RStrip(_)
RStrip(s) ==
    IF s # <<>> /\ s[Len(s)] \in WHITESPACE THEN RStrip(SubSeq(s, 1, Len(s) - 1)) ELSE s

\* str.strip()
Strip(s) == RStrip(LStrip(s))

\* The value of a numeral; int() lets single underscores separate its digits.
RECURSIVE DigitsValue(_)
DigitsValue(s) ==
    IF s = <<>> THEN 0
    ELSE IF s[Len(s)] = "_" THEN DigitsValue(SubSeq(s, 1, Len(s) - 1))
    ELSE 10 * DigitsValue(SubSeq(s, 1, Len(s) - 1)) + DIGIT[s[Len(s)]]

IsDigits(s) ==
    /\ s # <<>>
    /\ \A i \in 1..Len(s) : s[i] \in DOMAIN DIGIT \cup {"_"}
    /\ s[1] # "_" /\ s[Len(s)] # "_"
    /\ \A i \in 1..(Len(s) - 1) : ~(s[i] = "_" /\ s[i + 1] = "_")

\* A stripped numeral without its sign.
Unsigned(b) == IF b # <<>> /\ Head(b) \in {"+", "-"} THEN Tail(b) ELSE b

Signed(b, n) == IF b # <<>> /\ Head(b) = "-" THEN 0 - n ELSE n

\* The numeral int() reads in a text, without the blanks int() skips.
RECURSIVE IntStrip(_)
IntStrip(s) ==
    IF s # <<>> /\ Head(s) \in INT_WHITESPACE THEN IntStrip(Tail(s))
    ELSE IF s # <<>> /\ s[Len(s)] \in INT_WHITESPACE THEN IntStrip(SubSeq(s, 1, Len(s) - 1))
    ELSE s

\* int(s) of a character sequence: surrounding blanks, an optional sign, then
\* decimal digits; anything else is a ValueError (IntParses is FALSE).
IntParses(s) == IsDigits(Unsigned(IntStrip(s)))

IntOf(s) == Signed(IntStrip(s), DigitsValue(Unsigned(IntStrip(s))))

\* int(s.strip()): whether it succeeds, and its value.
IntOk(s) == IntParses(Strip(s))

IntValue(s) == IntOf(Strip(s))

\* str.startswith(prefix) on a payload given as tokens.
StartsWith(data, prefix) == data # <<>> /\ Head(data) = prefix

\* str.replace(prefix, ""): every occurrence of the prefix is removed.
RECURSIVE Replace(_, _)
Replace(data, prefix) ==
    IF data = <<>> THEN ""
    ELSE IF Head(data) = prefix THEN Replace(Tail(data), prefix)
    ELSE Head(data) \o Replace(Tail(data), prefix)

(************************* handler context ********************************)

Ctx(S) == [S |-> S, out |-> <<>>, swept |-> FALSE, raised |-> FALSE]

Raise(c) == [c EXCEPT !.raised = TRUE]

\* The body of an except clause runs on the context with the exception cleared.
Caught(c) == [c EXCEPT !.raised = FALSE]

HasSession(c, u) == u \in DOMAIN c.S

\* One outbound request (send, reply or edit), the k-th of the event; it raises
\* when the transport fails.
Request(c, k, to, msg, info, fail) ==
    [c EXCEPT !.out = Append(@, [to |-> to, msg |-> msg, ok |-> k \notin fail, info |-> info]),
              !.raised = k \in fail]

SendInfo(c, to, msg, info, fail) ==
    IF c.raised THEN c ELSE Request(c, Len(c.out) + 1, to, msg, info, fail)

Send(c, to, msg, fail) == SendInfo(c, to, msg, EmptyDict, fail)

\* try: ... except Exception: reply(msg)
Except(c, to, msg, fail) == IF c.raised THEN Send(Caught(c), to, msg, fail) ELSE c

CGet(c, u, t) ==
    IF c.raised THEN c
    ELSE [c EXCEPT !.S = get_session(@, u, t), !.swept = @ \/ SweepDue(c.S)]

CCreate(c, u, step, t) ==
    IF c.raised THEN c ELSE [c EXCEPT !.S = create_session(@, u, step, t)]

CUpdate(c, u, step, data, t) ==
    IF c.raised THEN c
    ELSE [c EXCEPT !.S = update_session(@, u, step, data, t), !.swept = @ \/ SweepDue(c.S)]

CClear(c, u) == IF c.raised THEN c ELSE [c EXCEPT !.S = clear_session(@, u)]

(******************************* handlers *********************************)

start_command(c, u, fail) == Send(c, u, "welcome", fail)

main_menu(c, u, fail) == Send(CClear(c, u), u, "main_menu", fail)

pricing_display(c, u, fail) == Send(c, u, "pricing", fail)

info_display(c, u, fail) == Send(c, u, "info", fail)

\* A variant of start_order_flow that stores a step no handler knows.
start_order_flow_misnamed(c, u, t, fail) ==
    Send(CCreate(c, u, "order_topic", t), u, "order_subject_prompt", fail)

start_order_flow(c, u, t, fail) ==
    Send(CCreate(c, u, "order_subject", t), u, "order_subject_prompt", fail)

support_interface(c, u, t, fail) ==
    Send(CUpdate(c, u, "support", EmptyDict, t), u, "support_prompt", fail)

\* After update_session: AcademicConfig.LEVELS[level_key] is a KeyError for a key
\* not in the catalog.
LevelStored(c, u, level_key, fail) ==
    Send(IF level_key \in DOMAIN LEVELS THEN c ELSE Raise(c), u, "pages_prompt", fail)

handle_level_selection(c, u, data, t, fail) ==
    LevelStored(CUpdate(c, u, "order_pages", [level |-> Replace(data, "level_")], t),
                u, Replace(data, "level_"), fail)

\* A variant of the final price that ignores the stored number of pages.
FinalPrice_one_page(d, deadline_key) ==
    calculate_price(DictGet(d, "level", None), deadline_key, DEFAULT_PAGES)

\* The final price from the session's data, after the deadline is stored.
FinalPrice(d, deadline_key) ==
    calculate_price(DictGet(d, "level", None), deadline_key, DictGet(d, "pages", DEFAULT_PAGES))

DeadlineStored(c, u, deadline_key, t, fail) ==
    Send(CUpdate(c, u, None, [final_price |-> FinalPrice(c.S[u].data, deadline_key)], t),
         u, "instructions_prompt", fail)

\* After get_session: with session None, update_session still creates and patches
\* a session, and session.data then raises AttributeError.
DeadlineGot(c, u, deadline_key, t, fail) ==
    IF ~HasSession(c, u)
    THEN Raise(CUpdate(c, u, "order_instructions", [deadline |-> deadline_key], t))
    ELSE DeadlineStored(CUpdate(c, u, "order_instructions", [deadline |-> deadline_key], t),
                        u, deadline_key, t, fail)

handle_deadline_selection(c, u, data, t, fail) ==
    DeadlineGot(CGet(c, u, t), u, Replace(data, "deadline_"), t, fail)

\* The catalog lookups LEVELS[data.get('level')] and DEADLINES[data.get('deadline')].
CatalogLookupOk(d) ==
    /\ DictGet(d, "level", None) \in DOMAIN LEVELS
    /\ DictGet(d, "deadline", None) \in DOMAIN DEADLINES

SummaryGot(c, u, fail) ==
    IF ~HasSession(c, u)
    THEN Send(c, u, "session_expired", fail)
    ELSE SendInfo(IF CatalogLookupOk(c.S[u].data) THEN c ELSE Raise(c), u, "order_summary",
                  [price |-> DictGet(c.S[u].data, "final_price", 0),
                   files |-> Len(c.S[u].files)], fail)

display_order_summary(c, u, t, fail) == SummaryGot(CGet(c, u, t), u, fail)

RECURSIVE SendFiles(_, _, _, _)
\* The loop over session.files: a failed send_document is logged and the loop goes on.
SendFiles(c, files, i, fail) ==
    IF i > Len(files) THEN c
    ELSE SendFiles(Caught(SendInfo(c, ADMIN_ID, "admin_document",
                                   [index |-> i, file_id |-> files[i].file_id], fail)),
                   files, i + 1, fail)

OrderDetails(u, session, payment_type) ==
    [user |-> u, subject |-> DictGet(session.data, "subject", None),
     level |-> DictGet(session.data, "level", None),
     pages |-> DictGet(session.data, "pages", None),
     deadline |-> DictGet(session.data, "deadline", None),
     price |-> DictGet(session.data, "final_price", 0),
     payment |-> payment_type, files |-> Len(session.files)]

\* After the notification is sent: a failure skips the attachments.
AdminNotified(c, session, fail) ==
    IF c.raised THEN Caught(c) ELSE SendFiles(c, session.files, 1, fail)

\* send_admin_notification: its try/except lets nothing out.
send_admin_notification(c, u, session, payment_type, fail) ==
    IF c.raised \/ ~CatalogLookupOk(session.data) THEN c
    ELSE AdminNotified(SendInfo(c, ADMIN_ID, "admin_notification",
                                OrderDetails(u, session, payment_type), fail),
                       session, fail)

\* A variant of send_payment_info that notifies the operator and clears the
\* session although the message to the user failed.
PaymentGot_regardless(c, u, session, payment_type, fail) ==
    CClear(send_admin_notification(
               Caught(SendInfo(IF payment_type = "transfer" \/ payment_type \in CRYPTO
                               THEN c ELSE Raise(c),
                               u, "payment_info",
                               [price |-> DictGet(session.data, "final_price", 0),
                                payment |-> payment_type], fail)),
               u, session, payment_type, fail),
           u)

\* A variant of send_payment_info that leaves the session in the store.
PaymentGot_keeping(c, u, session, payment_type, fail) ==
    send_admin_notification(
        SendInfo(IF payment_type = "transfer" \/ payment_type \in CRYPTO THEN c ELSE Raise(c),
                 u, "payment_info",
                 [price |-> DictGet(session.data, "final_price", 0),
                  payment |-> payment_type], fail),
        u, session, payment_type, fail)

\* After get_session found the session: AcademicConfig.CRYPTO[payment_type] is a
\* KeyError for an unknown currency.
PaymentGot(c, u, session, payment_type, fail) ==
    CClear(send_admin_notification(
               SendInfo(IF payment_type = "transfer" \/ payment_type \in CRYPTO
                        THEN c ELSE Raise(c),
                        u, "payment_info",
                        [price |-> DictGet(session.data, "final_price", 0),
                         payment |-> payment_type], fail),
               u, session, payment_type, fail),
           u)

PaymentLookedUp(c, u, payment_type, fail) ==
    IF ~HasSession(c, u) THEN c ELSE PaymentGot(c, u, c.S[u], payment_type, fail)

send_payment_info(c, u, payment_type, t, fail) ==
    PaymentLookedUp(CGet(c, u, t), u, payment_type, fail)

handle_payment_transfer(c, u, t, fail) == send_payment_info(c, u, "transfer", t, fail)

handle_payment_crypto(c, u, fail) == Send(c, u, "crypto_menu", fail)

handle_crypto_selection(c, u, data, t, fail) ==
    send_payment_info(c, u, Replace(data, "crypto_"), t, fail)

handle_support_message(c, u, message_text, fail) ==
    Except(CClear(Send(SendInfo(c, ADMIN_ID, "support_admin",
                                [user |-> u, body |-> message_text], fail),
                       u, "support_confirmation", fail),
                  u),
           u, "support_send_error", fail)

\* A file message is [kind, file_id, file_name, file_size]: kind "document" or
\* "photo" (update.message.document / .photo), file_name None when the document has
\* none, file_size 0 when the transport gives none.
FileName(f, session) ==
    IF f.kind = "document"
    THEN (IF f.file_name \in {None, ""} THEN "document" ELSE f.file_name)
    ELSE "image_" \o ToString(Len(session.files) + 1) \o ".jpg"

FileAdded(c, u, session, f, t, fail) ==
    IF add_file_ok(session)
    THEN SendInfo([c EXCEPT !.S[u] = add_file(@, f.file_id, FileName(f, session),
                                              f.file_size, t)],
                  u, "file_added",
                  [file_name |-> FileName(f, session), count |-> Len(session.files) + 1],
                  fail)
    ELSE c

\* A variant of the size test that refuses a file of exactly the limit.
FileTry_below_limit(c, u, session, f, t, fail) ==
    IF f.kind \notin {"document", "photo"}
    THEN Send(c, u, "file_unsupported", fail)
    ELSE IF f.file_size >= MAX_FILE_SIZE
    THEN Send(c, u, "file_too_large", fail)
    ELSE FileAdded(c, u, session, f, t, fail)

\* The try block of file_handler.
FileTry(c, u, session, f, t, fail) ==
    IF f.kind \notin {"document", "photo"}
    THEN Send(c, u, "file_unsupported", fail)
    ELSE IF f.file_size > MAX_FILE_SIZE
    THEN Send(c, u, "file_too_large", fail)
    ELSE FileAdded(c, u, session, f, t, fail)

\* A variant of file_handler's limit test that is off by one.
FileGot_off_by_one(c, u, f, t, fail) ==
    IF ~HasSession(c, u) \/ c.S[u].step # "order_files"
    THEN Send(c, u, "file_unexpected", fail)
    ELSE IF Len(c.S[u].files) > MAX_FILES_PER_ORDER
    THEN Send(c, u, "file_limit", fail)
    ELSE Except(FileTry(c, u, c.S[u], f, t, fail), u, "file_error", fail)

FileGot(c, u, f, t, fail) ==
    IF ~HasSession(c, u) \/ c.S[u].step # "order_files"
    THEN Send(c, u, "file_unexpected", fail)
    ELSE IF Len(c.S[u].files) >= MAX_FILES_PER_ORDER
    THEN Send(c, u, "file_limit", fail)
    ELSE Except(FileTry(c, u, c.S[u], f, t, fail), u, "file_error", fail)

file_handler(c, u, f, t, fail) == FileGot(CGet(c, u, t), u, f, t, fail)

\* /reply: args are the words after the command, each a character sequence.
\* A variant of admin_reply without the test of the sender.
admin_reply_open(c, u, args, fail) ==
    IF Len(args) < 2
    THEN Except(Send(c, u, "reply_usage", fail), u, "reply_error", fail)
    ELSE IF ~IntParses(args[1])
    THEN Send(c, u, "reply_invalid_id", fail)
    ELSE Except(Send(SendInfo(c, IntOf(args[1]), "reply_relay",
                              [body |-> Tail(args)], fail),
                     u, "reply_sent", fail),
                u, "reply_error", fail)

admin_reply(c, u, args, fail) ==
    IF u # ADMIN_ID THEN c
    ELSE IF Len(args) < 2
    THEN Except(Send(c, u, "reply_usage", fail), u, "reply_error", fail)
    ELSE IF ~IntParses(args[1])
    THEN Send(c, u, "reply_invalid_id", fail)
    ELSE Except(Send(SendInfo(c, IntOf(args[1]), "reply_relay",
                              [body |-> Tail(args)], fail),
                     u, "reply_sent", fail),
                u, "reply_error", fail)

\* A variant of the range check that lets 0 pages through.
PagesText_from_zero(c, u, message_text, t, fail) ==
    IF ~IntOk(message_text) \/ IntValue(message_text) < 0 \/ IntValue(message_text) > MAX_PAGES
    THEN Send(c, u, "pages_format_error", fail)
    ELSE Send(CUpdate(c, u, "order_deadline", [pages |-> IntValue(message_text)], t),
              u, "deadline_prompt", fail)

\* The order_pages branch: int(message_text.strip()) and the range check raise
\* ValueError, which is answered with the format message.
PagesText(c, u, message_text, t, fail) ==
    IF ~IntOk(message_text) \/ IntValue(message_text) <= 0 \/ IntValue(message_text) > MAX_PAGES
    THEN Send(c, u, "pages_format_error", fail)
    ELSE Send(CUpdate(c, u, "order_deadline", [pages |-> IntValue(message_text)], t),
              u, "deadline_prompt", fail)

\* The try block of text_handler.
TextTry(c, u, step, message_text, t, fail) ==
    CASE step = "order_subject" ->
           Send(CUpdate(c, u, "order_level", [subject |-> message_text], t),
                u, "level_prompt", fail)
      [] step = "order_pages" -> PagesText(c, u, message_text, t, fail)
      [] step = "order_instructions" ->
           Send(CUpdate(c, u, "order_files", [instructions_text |-> message_text], t),
                u, "files_prompt", fail)
      [] step = "support" -> handle_support_message(c, u, message_text, fail)
      [] OTHER -> c

TextGot(c, u, message_text, t, fail) ==
    IF ~HasSession(c, u)
    THEN Send(c, u, "navigation_lost", fail)
    ELSE Except(TextTry(c, u, c.S[u].step, message_text, t, fail),
                u, "error_temporary", fail)

text_handler(c, u, message_text, t, fail) == TextGot(CGet(c, u, t), u, message_text, t, fail)

\* The if/elif chain of button_handler; a payload no branch takes does nothing.
Route(c, u, data, t, fail) ==
    CASE data = <<"menu">> -> main_menu(c, u, fail)
      [] data = <<"back">> -> main_menu(c, u, fail)
      [] data = <<"new_order">> -> start_order_flow(c, u, t, fail)
      [] data = <<"pricing">> -> pricing_display(c, u, fail)
      [] data = <<"info">> -> info_display(c, u, fail)
      [] data = <<"support">> -> support_interface(c, u, t, fail)
      [] StartsWith(data, "level_") -> handle_level_selection(c, u, data, t, fail)
      [] StartsWith(data, "deadline_") -> handle_deadline_selection(c, u, data, t, fail)
      [] data = <<"order_summary">> -> display_order_summary(c, u, t, fail)
      [] data = <<"payment_transfer">> -> handle_payment_transfer(c, u, t, fail)
      [] data = <<"payment_crypto">> -> handle_payment_crypto(c, u, fail)
      [] StartsWith(data, "crypto_") -> handle_crypto_selection(c, u, data, t, fail)
      [] data = <<"skip_files">> -> display_order_summary(c, u, t, fail)
      [] OTHER -> c

\* query.answer(), the acknowledgement of the press, is awaited before the try
\* block: it is request 0 of the event, not recorded in out, and when it fails
\* the handler is left with the exception, the store untouched and nothing sent.
\* What the routed handler raises is answered with the transient-error message.
button_handler(c, u, data, t, fail) ==
    IF 0 \in fail
    THEN Raise(c)
    ELSE Except(Route(c, u, data, t, fail), u, "error_temporary", fail)

\* The characters of a command name: a text that opens with "/" and one of them
\* carries a command at its start.
COMMAND_CHARS ==
    {"A", "B", "C", "D", "E", "F", "G", "H", "I", "J", "K", "L", "M", "N", "O", "P",
     "Q", "R", "S", "T", "U", "V", "W", "X", "Y", "Z", "a", "b", "c", "d", "e", "f",
     "g", "h", "i", "j", "k", "l", "m", "n", "o", "p", "q", "r", "s", "t", "u", "v",
     "w", "x", "y", "z", "0", "1", "2", "3", "4", "5", "6", "7", "8", "9", "_"}

\* filters.TEXT & ~filters.COMMAND: a text that is not empty and opens with no
\* command.
TextFilter(body) ==
    /\ body # <<>>
    /\ ~(Len(body) >= 2 /\ body[1] = "/" /\ body[2] \in COMMAND_CHARS)

\* filters.PHOTO | filters.Document.ALL: a message that carries a photo or a
\* document.
FileFilter(f) == f.kind \in {"photo", "document"}

\* The handlers on an edited message.  They are registered for edited messages
\* as for new ones, and update.message is None on an edited message, so the
\* first use of update.message raises AttributeError; the except clauses that
\* answer through update.message raise it again.

\* admin_reply: the relay goes through context.bot; the usage message, the
\* invalid-id message, the confirmation and the error message go through
\* update.message.
admin_reply_edited(c, u, args, fail) ==
    IF u # ADMIN_ID THEN c
    ELSE IF Len(args) < 2 \/ ~IntParses(args[1]) THEN Raise(c)
    ELSE Raise(SendInfo(c, IntOf(args[1]), "reply_relay", [body |-> Tail(args)], fail))

\* text_handler and file_handler call get_session before they use update.message;
\* start_command uses it at once; main_menu clears the session first.
HandleEdited(c, u, ev, t, fail) ==
    CASE ev.kind = "text" /\ TextFilter(ev.body) -> Raise(CGet(c, u, t))
      [] ev.kind = "file" /\ FileFilter(ev.file) -> Raise(CGet(c, u, t))
      [] ev.kind = "start" -> Raise(c)
      [] ev.kind = "menu" -> Raise(CClear(c, u))
      [] ev.kind = "reply" -> admin_reply_edited(c, u, ev.args, fail)
      [] OTHER -> c

\* The handlers main() registers, by kind of update and behind their filters; an
\* update no handler takes starts nothing.
Handle(c, u, ev, t, fail) ==
    CASE ev.kind = "button" -> button_handler(c, u, ev.data, t, fail)
      [] ev.kind = "text" /\ TextFilter(ev.body) -> text_handler(c, u, ev.body, t, fail)
      [] ev.kind = "file" /\ FileFilter(ev.file) -> file_handler(c, u, ev.file, t, fail)
      [] ev.kind = "start" -> start_command(c, u, fail)
      [] ev.kind = "menu" -> main_menu(c, u, fail)
      [] ev.kind = "reply" -> admin_reply(c, u, ev.args, fail)
      [] ev.kind = "edited" -> HandleEdited(c, u, ev.of, t, fail)
      [] OTHER -> c

(******************************* actions **********************************)

NoScript == [pc |-> "none"]

NoEvent == [kind |-> "none"]

\* The store restricted to one user: empty when the user has no session.
Only(S, u) == [uid \in DOMAIN S \cap {u} |-> S[uid]]

\* One inbound update, handled to completion.
Deliver(u, ev, fail) ==
    \E r \in {Handle(Ctx(sessions), u, ev, now, fail)} :
        /\ sessions' = r.S
        /\ out' = r.out
        /\ last' = [user |-> u, ev |-> ev, pre |-> Only(sessions, u),
                    size |-> Cardinality(DOMAIN sessions), swept |-> r.swept,
                    raised |-> r.raised]
        /\ UNCHANGED now

Button(u, data, fail) ==
    Deliver(u, [kind |-> "button", data |-> data], fail) /\ UNCHANGED script

\* A text no handler takes (empty, or a command other than the three registered)
\* changes nothing: the step it would be is a stuttering step.
Text(u, body, fail) ==
    /\ TextFilter(body)
    /\ Deliver(u, [kind |-> "text", body |-> body], fail)
    /\ UNCHANGED script

\* Likewise a message that carries neither a photo nor a document.
File(u, f, fail) ==
    /\ FileFilter(f)
    /\ Deliver(u, [kind |-> "file", file |-> f], fail)
    /\ UNCHANGED script

\* The edit of an earlier message: a text, a file message or a command.
Edited(u, ev, fail) ==
    /\ ev.kind = "text" => TextFilter(ev.body)
    /\ ev.kind = "file" => FileFilter(ev.file)
    /\ Deliver(u, [kind |-> "edited", of |-> ev], fail)
    /\ UNCHANGED script

StartCommand(u, fail) == Deliver(u, [kind |-> "start"], fail) /\ UNCHANGED script

MenuCommand(u, fail) == Deliver(u, [kind |-> "menu"], fail) /\ UNCHANGED script

ReplyCommand(u, args, fail) ==
    Deliver(u, [kind |-> "reply", args |-> args], fail) /\ UNCHANGED script

\* Time passes between two events.
Tick(dt) ==
    /\ now' = now + dt
    /\ last' = [user |-> 0, ev |-> [kind |-> "tick"], pre |-> EmptyDict,
                size |-> Cardinality(DOMAIN sessions), swept |-> FALSE, raised |-> FALSE]
    /\ out' = <<>>
    /\ UNCHANGED <<sessions, script>>

(***************************** initial state ******************************)

NoHistory ==
    [user |-> 0, ev |-> NoEvent, pre |-> EmptyDict, size |-> 0, swept |-> FALSE,
     raised |-> FALSE]

\* session_manager = SessionManager(): an empty store.
Started ==
    /\ sessions = EmptyDict
    /\ now = 0
    /\ last = NoHistory
    /\ out = <<>>

Init == Started /\ script = NoScript

(************************ the conversation: Spec **************************)
(* One client and the operator; every button of every keyboard, payloads   *)
(* with keys outside the catalogs, a payload no branch routes, texts that  *)
(* are and are not page counts, and the three commands.  Handlers touch    *)
(* the sender's session only (SpecLoad has two clients and a crowd).       *)

Users == {1}

Payloads == {<<"menu">>, <<"back">>, <<"new_order">>, <<"pricing">>, <<"info">>,
             <<"support">>, <<"level_", "bachelor">>, <<"level_", "zz">>,
             <<"deadline_", "24h">>, <<"deadline_", "zz">>, <<"order_summary">>,
             <<"skip_files">>, <<"payment_transfer">>, <<"payment_crypto">>,
             <<"crypto_", "BTC">>, <<"crypto_", "zz">>, <<"crypto_", "transfer">>,
             <<"payment_done">>}

Texts == {<<"X">>, <<"2">>}

ReplyArgs ==
    {<<>>, << <<"1">> >>, << <<"1">>, <<"o", "k">> >>, << <<"x">>, <<"o", "k">> >>,
     << <<"U+0661">>, <<"o", "k">> >>}

\* The operator tries every form of /reply; a client's /reply is ignored whatever
\* its arguments.
ReplyArgsOf(u) == IF u = ADMIN_ID THEN ReplyArgs ELSE {<< <<"1">>, <<"o", "k">> >>}

FailSets == {{}, {1}, {2}}

\* In Spec the only file messages are ones over the size limit (SpecFiles has the
\* ones that are taken).
LargeFiles == {[kind |-> "document", file_id |-> "f3", file_name |-> None,
                file_size |-> MAX_FILE_SIZE + 1]}

\* The messages a client edits.
ClientEdits ==
    {[kind |-> "text", body |-> <<"2">>], [kind |-> "start"], [kind |-> "menu"]}
        \cup {[kind |-> "file", file |-> f] : f \in LargeFiles}

Next ==
    \/ \E u \in Users, d \in Payloads, fail \in FailSets \cup {{0}} : Button(u, d, fail)
    \/ \E u \in Users, b \in Texts, fail \in FailSets : Text(u, b, fail)
    \/ \E u \in Users, f \in LargeFiles : File(u, f, {})
    \/ \E u \in Users, fail \in FailSets : StartCommand(u, fail)
    \/ \E u \in Users, fail \in FailSets : MenuCommand(u, fail)
    \/ \E u \in Users \cup {ADMIN_ID}, fail \in FailSets :
           \E a \in ReplyArgsOf(u) : ReplyCommand(u, a, fail)
    \/ \E u \in Users, ev \in ClientEdits : Edited(u, ev, {})
    \/ \E a \in {b \in ReplyArgs : Len(b) = 2}, fail \in {{}, {1}} :
           Edited(ADMIN_ID, [kind |-> "reply", args |-> a], fail)

Spec == Init /\ [][Next]_vars

(*********************** attachments: SpecFiles ***************************)
(* The order flow with file messages: documents and photos that are taken, *)
(* a document over the size limit, and the edit of a file message.         *)

FilePayloads == {<<"menu">>, <<"new_order">>, <<"level_", "bachelor">>,
                 <<"deadline_", "24h">>, <<"order_summary">>, <<"payment_transfer">>}

FileTexts == {<<"2">>}

Files == {[kind |-> "document", file_id |-> "f1", file_name |-> "a.pdf", file_size |-> 1000],
          [kind |-> "photo", file_id |-> "f2", file_name |-> None,
           file_size |-> MAX_FILE_SIZE],
          [kind |-> "document", file_id |-> "f3", file_name |-> None,
           file_size |-> MAX_FILE_SIZE + 1]}

NextFiles ==
    \/ \E u \in Users, d \in FilePayloads, fail \in {{}, {0}} : Button(u, d, fail)
    \/ \E u \in Users, b \in FileTexts : Text(u, b, {})
    \/ \E u \in Users, f \in Files, fail \in FailSets : File(u, f, fail)
    \/ \E u \in Users, f \in Files : Edited(u, [kind |-> "file", file |-> f], {})

SpecFiles == Init /\ [][NextFiles]_vars

(******************** the store under load: SpecLoad **********************)
(* Two clients and a crowd of MAX_SESSIONS further users.  The crowd       *)
(* arrives first: each of its users starts an order at time 0, one after   *)
(* the other, and the clients act when the crowd is complete, one short of *)
(* complete, or absent.                                                    *)
(* Time then passes once, by exactly SESSION_TIMEOUT or by one second      *)
(* more.                                                                   *)

LoadUsers == {1, 2}

Crowd == 3..(MAX_SESSIONS + 2)

LoadPayloads == {<<"new_order">>, <<"support">>, <<"level_", "bachelor">>,
                 <<"order_summary">>, <<"menu">>}

LoadTexts == {<<"X">>}

TickSteps == {SESSION_TIMEOUT, SESSION_TIMEOUT + 1}

MaxClock == 1801

\* The next user of the crowd to arrive.
Arriving ==
    IF now = 0 /\ DOMAIN sessions \subseteq Crowd
    THEN {u \in Crowd : u \notin DOMAIN sessions
                        /\ \A v \in Crowd : v < u => v \in DOMAIN sessions}
    ELSE {}

CrowdSettled == Crowd \cap DOMAIN sessions \in {{}, Crowd \ {MAX_SESSIONS + 2}, Crowd}

NextLoad ==
    \/ \E u \in Arriving : Button(u, <<"new_order">>, {})
    \/ \E u \in LoadUsers, d \in LoadPayloads, fail \in {{}, {0}} :
           CrowdSettled /\ Button(u, d, fail)
    \/ \E u \in LoadUsers, b \in LoadTexts : CrowdSettled /\ Text(u, b, {})
    \/ \E u \in LoadUsers, b \in LoadTexts :
           CrowdSettled /\ Edited(u, [kind |-> "text", body |-> b], {})
    \/ \E dt \in TickSteps : CrowdSettled /\ now + dt <= MaxClock /\ Tick(dt)

SpecLoad == Init /\ [][NextLoad]_vars

(************************* pricing: SpecPrice *****************************)
(* calculate_price on every level key, every deadline key, a key outside   *)
(* each catalog, and every page count the flow accepts.                    *)

LevelInputs == DOMAIN LEVELS \cup {"zz", None}

DeadlineInputs == DOMAIN DEADLINES \cup {"zz"}

InitPrice ==
    /\ Started
    /\ script \in [pc : {"price"}, level : LevelInputs, deadline : DeadlineInputs,
                   pages : 1..MAX_PAGES, result : {-1}]

Price ==
    /\ script.pc = "price"
    /\ script' = [script EXCEPT !.pc = "priced",
                                !.result = calculate_price(script.level, script.deadline,
                                                           script.pages)]
    /\ UNCHANGED <<sessions, now, last, out>>

SpecPrice == InitPrice /\ [][Price]_vars

(*********************** the nominal path: SpecFlow ***********************)
(* One client goes through new order, subject, level, pages, deadline with *)
(* every catalog level, every catalog deadline and every page count.       *)

\* The decimal numeral a user types for n.
RECURSIVE DecimalText(_)
DecimalText(n) ==
    IF n < 10 THEN <<ToString(n)>> ELSE Append(DecimalText(n \div 10), ToString(n % 10))

FlowUser == CHOOSE u \in Users : TRUE

InitFlow ==
    /\ Started
    /\ script \in [pc : {0}, subject : {<<"X">>}, level : DOMAIN LEVELS,
                   deadline : DOMAIN DEADLINES, pages : 1..MAX_PAGES]

FlowAt(k) == script.pc = k /\ script' = [script EXCEPT !.pc = k + 1]

FlowNewOrder == FlowAt(0) /\ Deliver(FlowUser, [kind |-> "button", data |-> <<"new_order">>], {})

FlowSubject == FlowAt(1) /\ Deliver(FlowUser, [kind |-> "text", body |-> script.subject], {})

FlowLevel ==
    FlowAt(2) /\ Deliver(FlowUser, [kind |-> "button", data |-> <<"level_", script.level>>], {})

FlowPages ==
    FlowAt(3) /\ Deliver(FlowUser, [kind |-> "text", body |-> DecimalText(script.pages)], {})

FlowDeadline ==
    FlowAt(4)
    /\ Deliver(FlowUser, [kind |-> "button", data |-> <<"deadline_", script.deadline>>], {})

NextFlow == FlowNewOrder \/ FlowSubject \/ FlowLevel \/ FlowPages \/ FlowDeadline

SpecFlow == InitFlow /\ [][NextFlow]_vars

(************** SpecPages: texts sent to the pages question ****************)

PagesUser == CHOOSE u \in Users : TRUE

PagesLevels == {"bachelor", "phd"}

\* Texts a user may type for the number of pages.
PageTexts ==
    {<<"1">>, <<"5">>, <<"5", "0">>, <<"0">>, <<"5", "1">>, <<"-", "3">>, <<"+", "5">>,
     <<" ", "7", " ">>, <<"0", "5">>, <<"1", "_", "0">>, <<"X">>, <<"2", ".", "5">>,
     <<"5", "x">>, <<"+", " ", "5">>, <<"_", "1">>, <<"9", "9", "9">>, <<" ">>,
     <<" ", "5">>, <<"", "7">>, <<"U+0663">>, <<"U+FF11", "2">>, <<"²">>,
     <<"U+2003">>}

PagesStep == IF PagesUser \in DOMAIN sessions THEN sessions[PagesUser].step ELSE None

PagesNewOrder ==
    /\ PagesStep = None
    /\ Button(PagesUser, <<"new_order">>, {})

PagesSubject == PagesStep = "order_subject" /\ Text(PagesUser, <<"X">>, {})

\* A level button, from the level keyboard or pressed again later.
PagesLevel ==
    /\ PagesStep \in {"order_level", "order_deadline"}
    /\ \E level \in PagesLevels : Button(PagesUser, <<"level_", level>>, {})

PagesAnswer ==
    /\ PagesStep = "order_pages"
    /\ \E body \in PageTexts, fail \in {{}, {1}} : Text(PagesUser, body, fail)

\* An answer to the pages question is edited.
PagesEdit ==
    /\ PagesStep \in {"order_pages", "order_deadline"}
    /\ \E body \in {<<"5">>, <<"X">>} : Edited(PagesUser, [kind |-> "text", body |-> body], {})

NextPages == PagesNewOrder \/ PagesSubject \/ PagesLevel \/ PagesAnswer \/ PagesEdit

SpecPages == Init /\ [][NextPages]_vars

(******************************* claims ***********************************)

IsButton(ev, data) == ev.kind = "button" /\ ev.data = data

IsButtonWith(ev, prefix) == ev.kind = "button" /\ StartsWith(ev.data, prefix)

HasPrice(S, u) == u \in DOMAIN S /\ "final_price" \in DOMAIN S[u].data

\* Whether the last event found a session of its sender.
HadSession == last.user \in DOMAIN last.pre

\* Whether the last event was a button press whose acknowledgement failed, so
\* that no handler was routed: a press that gets past it and raises is answered
\* with a request, delivered or not.
AnswerFailed == last.ev.kind = "button" /\ out = <<>> /\ last.raised

\* C1: within one session's lifetime final_price is written once, by the deadline
\* selection, and no later event changes it: a step that finds a price and leaves
\* a price leaves the same price, and a step that sets the price is a deadline
\* press.
C1_FinalPriceWrittenOnce ==
    [][\A u \in Users :
          /\ HasPrice(sessions, u) /\ HasPrice(sessions', u)
                => sessions'[u].data["final_price"] = sessions[u].data["final_price"]
          /\ ~HasPrice(sessions, u) /\ HasPrice(sessions', u)
                => IsButtonWith(last'.ev, "deadline_")]_vars

\* What the last event's sender had attached before the event.
FilesBefore == IF HadSession THEN last.pre[last.user].files ELSE <<>>

Replies == {out[i].msg : i \in 1..Len(out)}

\* C2: no session ever holds more than MAX_FILES_PER_ORDER files, and a file
\* message that finds MAX_FILES_PER_ORDER files is refused (the limit message when
\* the session awaits files, the unexpected-file message otherwise) and leaves
\* the list as it was.
C2_FilesBounded ==
    /\ \A u \in DOMAIN sessions : Len(sessions[u].files) <= MAX_FILES_PER_ORDER
    /\ last.ev.kind = "file" /\ Len(FilesBefore) >= MAX_FILES_PER_ORDER
          => /\ last.user \in DOMAIN sessions
             /\ sessions[last.user].files = FilesBefore
             /\ Len(out) = 1
             /\ out[1].msg = IF last.pre[last.user].step = "order_files"
                             THEN "file_limit" ELSE "file_unexpected"

C2_Witness ==
    /\ last.ev.kind = "file"
    /\ Len(FilesBefore) = MAX_FILES_PER_ORDER
    /\ Replies = {"file_limit"}
    /\ Len(sessions[last.user].files) = MAX_FILES_PER_ORDER

\* C3: the step of every stored session is one of the defined states.
C3_StepDefined == \A u \in DOMAIN sessions : sessions[u].step \in STEPS

C3_Witness ==
    /\ IsButton(last.ev, <<"level_", "zz">>)
    /\ ~HadSession
    /\ last.user \in DOMAIN sessions
    /\ sessions[last.user].step = "order_pages"

\* C4: after the new-order button has called create, the sender's session is a
\* fresh one at step order_subject, with empty data and no files, whatever the
\* session before held (a press whose acknowledgement fails calls nothing).
C4_NewOrderReplaces ==
    (IsButton(last.ev, <<"new_order">>) /\ ~AnswerFailed)
        => /\ last.user \in DOMAIN sessions
           /\ sessions[last.user].step = "order_subject"
           /\ sessions[last.user].data = EmptyDict
           /\ sessions[last.user].files = <<>>

C4_Witness ==
    /\ IsButton(last.ev, <<"new_order">>)
    /\ HadSession
    /\ last.pre[last.user].files # <<>>
    /\ "final_price" \in DOMAIN last.pre[last.user].data
    /\ last.pre[last.user].step = "order_files"
    /\ sessions[last.user].data = EmptyDict

\* Whether the session the last event's sender had was due to be swept when the
\* event arrived: the store was over capacity and the session idle too long.
OwnSwept ==
    /\ HadSession
    /\ last.size > MAX_SESSIONS
    /\ now - last.pre[last.user].last_activity > SESSION_TIMEOUT

\* The step and patch of the update_session call that opens the handlers of the
\* support button and of a level button.
OpensWithUpdate(ev) == IsButton(ev, <<"support">>) \/ IsButtonWith(ev, "level_")

UpdateStep(ev) == IF IsButton(ev, <<"support">>) THEN "support" ELSE "order_pages"

UpdatePatch(ev) ==
    IF IsButton(ev, <<"support">>) THEN EmptyDict ELSE [level |-> Replace(ev.data, "level_")]

\* C5: update never fails for lack of a session.  When the sender has none (also
\* when the sweep of update's own get removed it), the session afterwards is a new
\* one holding the given step and exactly the patch; when it has one, the patch's
\* keys are overwritten and every other key, and the files, keep their value.
\* The update is the one the support and level buttons open with, once the press
\* is acknowledged.
C5_UpdateCreatesOrMerges ==
    (OpensWithUpdate(last.ev) /\ ~AnswerFailed)
        => /\ last.user \in DOMAIN sessions
           /\ sessions[last.user].step = UpdateStep(last.ev)
           /\ IF ~HadSession \/ OwnSwept
              THEN /\ sessions[last.user].data = UpdatePatch(last.ev)
                   /\ sessions[last.user].files = <<>>
                   /\ sessions[last.user].created_at = now
              ELSE /\ \A k \in DOMAIN UpdatePatch(last.ev) :
                          sessions[last.user].data[k] = UpdatePatch(last.ev)[k]
                   /\ \A k \in DOMAIN last.pre[last.user].data \ DOMAIN UpdatePatch(last.ev) :
                          /\ k \in DOMAIN sessions[last.user].data
                          /\ sessions[last.user].data[k] = last.pre[last.user].data[k]
                   /\ DOMAIN sessions[last.user].data =
                          DOMAIN last.pre[last.user].data \cup DOMAIN UpdatePatch(last.ev)
                   /\ sessions[last.user].files = last.pre[last.user].files
                   /\ sessions[last.user].created_at = last.pre[last.user].created_at

C5_Witness ==
    /\ IsButton(last.ev, <<"support">>)
    /\ OwnSwept
    /\ last.pre[last.user].data # EmptyDict
    /\ sessions[last.user].step = "support"
    /\ sessions[last.user].data = EmptyDict

\* The events whose handler opens with get_session and does nothing else to the
\* store when the get finds no session: text and file messages, new or edited,
\* and the summary and payment buttons.
OnlyGets(ev) ==
    \/ ev.kind \in {"text", "file"}
    \/ ev.kind = "edited" /\ ev.of.kind \in {"text", "file"}
    \/ ev.kind = "button" /\ (\/ ev.data \in {<<"order_summary">>, <<"skip_files">>,
                                               <<"payment_transfer">>}
                               \/ StartsWith(ev.data, "crypto_"))

\* The events main_menu handles: the menu and back buttons and the /menu
\* command, new or edited.
IsMenu(ev) ==
    \/ ev.kind = "menu"
    \/ IsButton(ev, <<"menu">>)
    \/ IsButton(ev, <<"back">>)
    \/ ev.kind = "edited" /\ ev.of.kind = "menu"

\* C6: clear is idempotent.  After every event main_menu has handled (a button
\* press whose acknowledgement fails never reaches it) the sender has
\* no session, whether or not there was one, and clearing an absent session
\* changes nothing in the store and raises nothing: main_menu goes on to its
\* reply, which is the menu (on an edited /menu the reply itself is what raises,
\* after the clear, and nothing is sent).  Clearing twice is clearing once; and
\* a get that follows a clear finds nothing, so an event that only gets leaves a
\* user without a session without one.
C6_ClearIdempotent ==
    /\ (IsMenu(last.ev) /\ ~AnswerFailed)
          => /\ last.user \notin DOMAIN sessions
             /\ IF last.ev.kind = "edited"
                THEN out = <<>> /\ last.raised
                ELSE out # <<>> /\ out[1].msg = "main_menu"
             /\ ~HadSession => Cardinality(DOMAIN sessions) = last.size
    /\ \A u \in Users :
          /\ clear_session(clear_session(sessions, u), u) = clear_session(sessions, u)
          /\ u \notin DOMAIN sessions => clear_session(sessions, u) = sessions
          /\ u \notin DOMAIN get_session(clear_session(sessions, u), u, now)
    /\ OnlyGets(last.ev) /\ ~HadSession => last.user \notin DOMAIN sessions

C6_Witness ==
    /\ IsMenu(last.ev)
    /\ ~HadSession
    /\ last.user \notin DOMAIN sessions
    /\ out # <<>> /\ out[1].ok

IdleTooLong(session, t) == t - session.last_activity > SESSION_TIMEOUT

\* C7: a sweep removes every session idle for more than SESSION_TIMEOUT and no
\* other: after a step in which the sweep ran, every session that was idle too
\* long is gone (or, the sender's own, made anew by update), and every other
\* user's session that was within the timeout is there unchanged.  When the
\* handler only gets, a sender whose session was idle too long is left without
\* one.
C7_SweepRemovesExpired ==
    [][last'.swept =>
          /\ \A v \in DOMAIN sessions :
                IF IdleTooLong(sessions[v], now)
                THEN \/ v \notin DOMAIN sessions'
                     \/ v = last'.user /\ sessions'[v].created_at = now
                ELSE v # last'.user => v \in DOMAIN sessions' /\ sessions'[v] = sessions[v]
          /\ \A v \in DOMAIN sessions' : ~IdleTooLong(sessions'[v], now)
          /\ (/\ OnlyGets(last'.ev)
              /\ last'.user \in DOMAIN sessions
              /\ IdleTooLong(sessions[last'.user], now)) => last'.user \notin DOMAIN sessions'
      ]_vars

C7_Witness ==
    /\ last.swept
    /\ OnlyGets(last.ev)
    /\ HadSession
    /\ now - last.pre[last.user].last_activity > SESSION_TIMEOUT
    /\ last.user \notin DOMAIN sessions
    /\ DOMAIN sessions # {}
    /\ Cardinality(DOMAIN sessions) < last.size - 1

\* The events whose handler opens with a get or a create on the store.
GetsOrCreates(ev) ==
    \/ OnlyGets(ev)
    \/ OpensWithUpdate(ev)
    \/ IsButton(ev, <<"new_order">>)
    \/ IsButtonWith(ev, "deadline_")

\* C8: whenever the store holds more than MAX_SESSIONS sessions, the expiry sweep
\* runs before a get or a create proceeds, so no session idle for more than
\* SESSION_TIMEOUT is left after such an event.
C8_SweepBeforeGetAndCreate ==
    GetsOrCreates(last.ev) /\ last.size > MAX_SESSIONS
        => \A v \in DOMAIN sessions : ~IdleTooLong(sessions[v], now)

\* The price the claim states, from the catalogs.
StatedPrice(level, deadline, pages) ==
    IF level \notin DOMAIN LEVELS THEN 0
    ELSE IF deadline \in DOMAIN DEADLINES
    THEN Min(LEVELS[level] * DEADLINES[deadline] * pages, 5000 * pages)
    ELSE Min(LEVELS[level] * 10 * pages, 5000 * pages)

\* C9: calculate_price is 0 for a level outside the catalog and otherwise
\* min(base * m * P, 50 * P), with m = 1.0 for a deadline outside the catalog; it
\* never exceeds 50 * P and is base * m * P when that is at most 50 * P.
C9_PriceFormula ==
    script.pc = "priced"
        => /\ script.result = StatedPrice(script.level, script.deadline, script.pages)
           /\ script.result <= 5000 * script.pages
           /\ script.level \notin DOMAIN LEVELS => script.result = 0
           /\ (/\ script.level \in DOMAIN LEVELS
               /\ LEVELS[script.level] * Multiplier(script.deadline) * script.pages
                      <= 5000 * script.pages)
                 => script.result
                      = LEVELS[script.level] * Multiplier(script.deadline) * script.pages
           /\ (script.level \in DOMAIN LEVELS /\ script.deadline \notin DOMAIN DEADLINES)
                 => script.result = Min(LEVELS[script.level] * 10 * script.pages,
                                        5000 * script.pages)

C9_Witness ==
    /\ script.pc = "priced"
    /\ script.level = "phd" /\ script.deadline = "6h" /\ script.pages = 3
    /\ script.result = 15000

FlowSteps == <<"order_subject", "order_level", "order_pages", "order_deadline",
               "order_instructions">>

\* C10: on the nominal path the step goes order_subject, order_level, order_pages,
\* order_deadline, order_instructions, and after the deadline press the data are
\* the subject, the level, the pages, the deadline and
\* final_price = calculate_price(level, deadline, pages): 66.00 for
\* bachelor/2/24h, 150.00 for phd/3/6h.
C10_NominalPath ==
    /\ script.pc = 0 => FlowUser \notin DOMAIN sessions
    /\ script.pc \in 1..5
          => FlowUser \in DOMAIN sessions /\ sessions[FlowUser].step = FlowSteps[script.pc]
    /\ script.pc = 5
          => /\ sessions[FlowUser].data =
                    [subject |-> script.subject, level |-> script.level,
                     pages |-> script.pages, deadline |-> script.deadline,
                     final_price |-> StatedPrice(script.level, script.deadline, script.pages)]
             /\ (script.level = "bachelor" /\ script.pages = 2 /\ script.deadline = "24h")
                   => sessions[FlowUser].data["final_price"] = 6600
             /\ (script.level = "phd" /\ script.pages = 3 /\ script.deadline = "6h")
                   => sessions[FlowUser].data["final_price"] = 15000

C10_Witness ==
    /\ script.pc = 5
    /\ script.level = "phd" /\ script.pages = 3 /\ script.deadline = "6h"
    /\ sessions[FlowUser].step = "order_instructions"
    /\ sessions[FlowUser].data["final_price"] = 15000

\* The integer each text of PageTexts denotes; the other texts denote none.
\* Surrounding blanks (a no-break space and a separator among them), a sign,
\* leading zeros, a single underscore between digits and the decimal digits of
\* other scripts are read as int() reads them after str.strip(); a superscript
\* two is no decimal digit.
StatedInteger ==
    (<<"1">> :> 1) @@ (<<"5">> :> 5) @@ (<<"5", "0">> :> 50) @@ (<<"0">> :> 0)
    @@ (<<"5", "1">> :> 51) @@ (<<"-", "3">> :> 0 - 3) @@ (<<"+", "5">> :> 5)
    @@ (<<" ", "7", " ">> :> 7) @@ (<<"0", "5">> :> 5) @@ (<<"1", "_", "0">> :> 10)
    @@ (<<"9", "9", "9">> :> 999) @@ (<<" ", "5">> :> 5) @@ (<<"", "7">> :> 7)
    @@ (<<"U+0663">> :> 3) @@ (<<"U+FF11", "2">> :> 12)

PagesAccepted(body) ==
    body \in DOMAIN StatedInteger /\ StatedInteger[body] >= 1 /\ StatedInteger[body] <= 50

\* C11: in step order_pages a text that is no integer, or an integer below 1 or
\* above 50, leaves the step order_pages and the data as they were (pages unset
\* when it was unset); a text that is an integer n in 1..50 sets pages = n,
\* keeps the other data, and moves the step to order_deadline.
C11_PagesText ==
    (last.ev.kind = "text" /\ HadSession /\ last.pre[last.user].step = "order_pages")
        => /\ last.user \in DOMAIN sessions
           /\ sessions[last.user].files = last.pre[last.user].files
           /\ IF PagesAccepted(last.ev.body)
              THEN /\ sessions[last.user].step = "order_deadline"
                   /\ sessions[last.user].data =
                          DictUpdate(last.pre[last.user].data,
                                     [pages |-> StatedInteger[last.ev.body]])
              ELSE /\ sessions[last.user].step = "order_pages"
                   /\ sessions[last.user].data = last.pre[last.user].data

C11_Witness ==
    /\ last.ev.kind = "text" /\ last.ev.body = <<"5", "1">>
    /\ HadSession /\ last.pre[last.user].step = "order_pages"
    /\ "pages" \notin DOMAIN last.pre[last.user].data
    /\ sessions[last.user].step = "order_pages"
    /\ "pages" \notin DOMAIN sessions[last.user].data
    /\ Replies = {"pages_format_error"}

\* The updates main_menu handles: the menu and back buttons and the /menu
\* command, new or edited.
MenuEvents ==
    {[kind |-> "button", data |-> <<"menu">>], [kind |-> "button", data |-> <<"back">>],
     [kind |-> "menu"], [kind |-> "edited", of |-> [kind |-> "menu"]]}

\* C12: from every reachable state, with or without a session, the back and menu
\* actions are taken and unconditionally leave the sender without a session.
C12_MenuAlwaysReachable == last.ev \in MenuEvents => last.user \notin DOMAIN sessions

\* The payloads button_handler routes.
Routable(data) ==
    \/ data \in {<<"menu">>, <<"back">>, <<"new_order">>, <<"pricing">>, <<"info">>,
                  <<"support">>, <<"order_summary">>, <<"payment_transfer">>,
                  <<"payment_crypto">>, <<"skip_files">>}
    \/ \E prefix \in {"level_", "deadline_", "crypto_"} : StartsWith(data, prefix)

\* Whether the handling of a button press by user u on the store S at time t
\* raises an error of the program's own (every request sent being delivered):
\* the try block of button_handler, run on the whole store.
HandlingRaised(S, u, ev, t) ==
    /\ ev.kind = "button"
    /\ Route(Ctx(S), u, ev.data, t, {}).raised

\* C13: a button whose payload is not routable, and an action whose handling
\* raises an error, is answered with the transient-error message, and the
\* sender's session is as it was before the action.
C13_UnroutableAnswered ==
    [][(/\ last'.ev.kind = "button"
        /\ \/ ~Routable(last'.ev.data)
           \/ HandlingRaised(sessions, last'.user, last'.ev, now))
          => /\ \E i \in 1..Len(out') : out'[i].msg = "error_temporary"
             /\ Only(sessions', last'.user) = Only(sessions, last'.user)
      ]_vars

\* A level or deadline button whose key is not in the catalog.
UnknownKey(ev) ==
    \/ IsButtonWith(ev, "level_") /\ Replace(ev.data, "level_") \notin DOMAIN LEVELS
    \/ IsButtonWith(ev, "deadline_") /\ Replace(ev.data, "deadline_") \notin DOMAIN DEADLINES

\* C14: a level or deadline button carrying a key that is not in the catalog is
\* ignored: the sender's session (existence, step, data, files) is as it was.
C14_UnknownKeyIgnored == UnknownKey(last.ev) => Only(sessions, last.user) = last.pre

\* The conditions under which the claim has a file taken: 20 MiB is 20971520
\* bytes.
FileTaken ==
    /\ HadSession
    /\ last.pre[last.user].step = "order_files"
    /\ Len(last.pre[last.user].files) < MAX_FILES_PER_ORDER
    /\ last.ev.file.kind \in {"document", "photo"}
    /\ last.ev.file.file_size <= 20971520

\* C15: a file message refused for any reason (no session or a step other than
\* order_files, MAX_FILES_PER_ORDER files already, more than 20 MiB, neither a
\* document nor an image) leaves the sender's session as it was; otherwise
\* exactly one descriptor, of this file, is appended at the end, and the step
\* and the data stay as they were.
C15_FileAppendedOrRefused ==
    last.ev.kind = "file"
        => IF FileTaken
           THEN /\ last.user \in DOMAIN sessions
                /\ sessions[last.user].step = "order_files"
                /\ sessions[last.user].data = last.pre[last.user].data
                /\ Len(sessions[last.user].files) = Len(FilesBefore) + 1
                /\ SubSeq(sessions[last.user].files, 1, Len(FilesBefore)) = FilesBefore
                /\ sessions[last.user].files[Len(FilesBefore) + 1].file_id
                      = last.ev.file.file_id
                /\ sessions[last.user].files[Len(FilesBefore) + 1].file_size
                      = last.ev.file.file_size
           ELSE /\ Only(sessions, last.user) = last.pre
                /\ "file_added" \notin Replies

C15_Witness ==
    /\ last.ev.kind = "file"
    /\ last.ev.file.kind = "photo" /\ last.ev.file.file_size = 20971520
    /\ Len(FilesBefore) = 1
    /\ Len(sessions[last.user].files) = 2
    /\ sessions[last.user].files[2].file_size = 20971520
    /\ sessions[last.user].step = "order_files"

\* The actions that expect the sender to have a session: text and file
\* messages, new or edited, and the buttons of a running order.
ExpectsSession(ev) ==
    \/ ev.kind \in {"text", "file"}
    \/ ev.kind = "edited" /\ ev.of.kind \in {"text", "file"}
    \/ IsButtonWith(ev, "level_")
    \/ IsButtonWith(ev, "deadline_")
    \/ IsButtonWith(ev, "crypto_")
    \/ ev.kind = "button"
          /\ ev.data \in {<<"order_summary">>, <<"skip_files">>, <<"payment_transfer">>}

\* The replies that explain that something went wrong and offer the menu.
Explanations == {"session_expired", "navigation_lost", "file_unexpected", "error_temporary"}

\* C16: an action that expects a session, received from a user who has none, is
\* answered with an explanatory message, raises no error beyond a failed send,
\* and leaves the user without a session.
C16_NoSessionAnswered ==
    (ExpectsSession(last.ev) /\ ~HadSession)
        => /\ last.user \notin DOMAIN sessions
           /\ out # <<>> /\ out[1].to = last.user /\ out[1].msg \in Explanations
           /\ (\A i \in 1..Len(out) : out[i].ok) => ~last.raised

\* The payment selections: bank transfer, or a configured currency.  A currency
\* payload that names "transfer" is taken as the bank transfer.
PaymentChosen(ev) ==
    \/ IsButton(ev, <<"payment_transfer">>)
    \/ IsButtonWith(ev, "crypto_")
           /\ Replace(ev.data, "crypto_") \in {"transfer", "BTC", "ETH", "USDT"}

\* The requests addressed to the operator, by position in out.
ToOperator == {i \in 1..Len(out) : out[i].to = ADMIN_ID}

\* Whether the session the last event found names a level and a deadline of the
\* catalogs, as the notification needs to be written.
OrderNamed ==
    /\ DictGet(last.pre[last.user].data, "level", None) \in DOMAIN LEVELS
    /\ DictGet(last.pre[last.user].data, "deadline", None) \in DOMAIN DEADLINES

\* C17: when a user with a session selects bank transfer or a configured
\* currency and the send to the user succeeds, the payment instructions are sent
\* first, the operator notification comes after them (sent or failing, once the
\* order names its level and deadline), and the user has no session afterwards;
\* choosing crypto alone sends nothing to the operator and leaves the session as
\* it was.
C17_PaymentCompletes ==
    /\ (PaymentChosen(last.ev) /\ HadSession /\ out # <<>> /\ out[1].ok)
          => /\ out[1].to = last.user /\ out[1].msg = "payment_info"
             /\ out[1].info.price = DictGet(last.pre[last.user].data, "final_price", 0)
             /\ \A i \in ToOperator : i > 1
             /\ OrderNamed => /\ Len(out) >= 2
                               /\ out[2].to = ADMIN_ID
                               /\ out[2].msg = "admin_notification"
                               /\ out[2].info.user = last.user
             /\ last.user \notin DOMAIN sessions
    /\ IsButton(last.ev, <<"payment_crypto">>)
          => /\ ToOperator = {}
             /\ Only(sessions, last.user) = last.pre

C17_Witness ==
    /\ IsButton(last.ev, <<"crypto_", "BTC">>)
    /\ HadSession /\ OrderNamed
    /\ Len(out) = 2 /\ out[1].ok /\ out[1].msg = "payment_info"
    /\ out[2].msg = "admin_notification" /\ ~out[2].ok
    /\ last.user \notin DOMAIN sessions

\* Whether a send to the operator failed during the last event.
OperatorSendFailed == \E i \in ToOperator : ~out[i].ok

\* The user's confirmation of each flow.
Confirmation(ev) == IF ev.kind = "text" THEN "support_confirmation" ELSE "payment_info"

\* C18: in the order flow (a payment selection by a user with a session) and in
\* the support flow (a text from a user in step support), a failed send to the
\* operator changes nothing for the user: the confirmation is delivered and the
\* session is cleared, as when the operator send succeeds.
C18_OperatorFailureIndependent ==
    (/\ HadSession
     /\ \/ PaymentChosen(last.ev)
        \/ last.ev.kind = "text" /\ last.pre[last.user].step = "support"
     /\ OperatorSendFailed)
        => /\ \E i \in 1..Len(out) :
                  out[i].to = last.user /\ out[i].msg = Confirmation(last.ev) /\ out[i].ok
           /\ last.user \notin DOMAIN sessions

\* C19: support needs no prior session: the support button leaves the sender
\* with a session in step support, also when there was none, and a text from a
\* user without a session is relayed to the operator as a support message, not
\* answered with the no-session reply.
C19_SupportWithoutSession ==
    /\ IsButton(last.ev, <<"support">>)
          => last.user \in DOMAIN sessions /\ sessions[last.user].step = "support"
    /\ (last.ev.kind = "text" /\ ~HadSession)
          => /\ "navigation_lost" \notin Replies
             /\ out # <<>> /\ out[1].to = ADMIN_ID /\ out[1].msg = "support_admin"

\* The target ids the first argument of /reply denotes, for the arguments tried.
StatedTarget == (<<"1">> :> 1) @@ (<<"U+0661">> :> 1)

WellFormed(args) == Len(args) >= 2 /\ args[1] \in DOMAIN StatedTarget

\* C20: /reply never changes the store.  From someone other than the operator it
\* is ignored; with too few arguments or a target that is no number it is
\* answered to the operator only; with well-formed arguments the text is relayed
\* to the target first; and in every case every session is as it was.
C20_ReplyKeepsStore ==
    [][last'.ev.kind = "reply" =>
          /\ sessions' = sessions
          /\ IF last'.user # ADMIN_ID
             THEN out' = <<>>
             ELSE IF ~WellFormed(last'.ev.args)
             THEN /\ out' # <<>>
                  /\ \A i \in 1..Len(out') : out'[i].to = ADMIN_ID
                  /\ out'[1].msg \in {"reply_usage", "reply_invalid_id"}
             ELSE /\ out'[1].to = StatedTarget[last'.ev.args[1]]
                  /\ out'[1].msg = "reply_relay"
                  /\ out'[1].info.body = Tail(last'.ev.args)
                  /\ \A i \in 2..Len(out') : out'[i].to = ADMIN_ID
      ]_vars

C20_Witness ==
    /\ last.ev.kind = "reply" /\ last.user = ADMIN_ID
    /\ WellFormed(last.ev.args)
    /\ Len(out) = 2 /\ out[1].to = 1 /\ out[1].ok /\ out[2].msg = "reply_sent"
    /\ 1 \in DOMAIN sessions /\ sessions[1].step = "order_pages"

\* Whether the data of an order are complete.
CompleteOrder(d) ==
    /\ "subject" \in DOMAIN d
    /\ DictGet(d, "level", None) \in DOMAIN LEVELS
    /\ DictGet(d, "pages", 0) \in 1..50
    /\ DictGet(d, "deadline", None) \in DOMAIN DEADLINES
    /\ "final_price" \in DOMAIN d

\* C21: whenever the payment instructions are rendered and the operator
\* notification is composed, the session the payment selection found holds a
\* complete order: subject, a catalog level, pages in 1..50, a catalog deadline
\* and final_price.
C21_PaymentNeedsCompleteOrder ==
    (/\ last.ev.kind = "button"
     /\ "payment_info" \in Replies
     /\ "admin_notification" \in Replies)
        => HadSession /\ CompleteOrder(last.pre[last.user].data)

\* The price of the level, deadline and pages a session holds now (one page when
\* none is stored, as the deadline selection counts).
PriceOfStored(d) ==
    StatedPrice(DictGet(d, "level", None), DictGet(d, "deadline", None), DictGet(d, "pages", 1))

\* C22: in every reachable state, a session that holds final_price holds the
\* price of the level, deadline and pages it holds.
C22_PriceMatchesOrder ==
    \A u \in DOMAIN sessions :
        HasPrice(sessions, u) => sessions[u].data["final_price"] = PriceOfStored(sessions[u].data)

\* The position of a step in the order sequence.
OrderPosition ==
    ("order_subject" :> 1) @@ ("order_level" :> 2) @@ ("order_pages" :> 3)
    @@ ("order_deadline" :> 4) @@ ("order_instructions" :> 5) @@ ("order_files" :> 6)

\* C23: within one session's lifetime the step never moves to an earlier position
\* of the order sequence: unless the event restarts with a new session (the
\* new-order button), a session that is at a step of the sequence before and
\* after an event is at the same or a later one after it.
C23_StepNeverMovesBack ==
    [][\A u \in DOMAIN sessions \cap DOMAIN sessions' :
          (/\ ~IsButton(last'.ev, <<"new_order">>)
           /\ sessions[u].step \in DOMAIN OrderPosition
           /\ sessions'[u].step \in DOMAIN OrderPosition)
             => OrderPosition[sessions'[u].step] >= OrderPosition[sessions[u].step]]_vars

\* The order notifications sent to the operator during the last event.
Notifications == {i \in 1..Len(out) : out[i].msg = "admin_notification"}

\* C24: a session gives rise to at most one order notification.  An event sends
\* at most one, only for a session it found, and leaves the sender without a
\* session; a payment selection by a user without a session sends nothing at
\* all; and when the payment message to the user fails, nothing is sent to the
\* operator and the session is kept as it was.
C24_OneNotificationPerSession ==
    /\ Cardinality(Notifications) <= 1
    /\ Notifications # {}
          => /\ PaymentChosen(last.ev) /\ HadSession
             /\ last.user \notin DOMAIN sessions
             /\ \A i \in Notifications : out[i].info.user = last.user
    /\ (PaymentChosen(last.ev) /\ ~HadSession)
          => out = <<>> /\ last.user \notin DOMAIN sessions
    /\ (/\ PaymentChosen(last.ev) /\ HadSession
        /\ out # <<>> /\ out[1].msg = "payment_info" /\ ~out[1].ok)
          => /\ ToOperator = {}
             /\ Only(sessions, last.user) = last.pre

C24_Witness ==
    /\ IsButton(last.ev, <<"payment_transfer">>)
    /\ HadSession /\ OrderNamed
    /\ out # <<>> /\ out[1].msg = "payment_info" /\ ~out[1].ok
    /\ Notifications = {}
    /\ last.user \in DOMAIN sessions
    /\ HasPrice(sessions, last.user)

\* C25: handling an event of one user leaves every other user's session exactly
\* as it was and creates none for another user, except that a sweep may remove
\* another user's session, and only one idle for more than SESSION_TIMEOUT.
C25_OtherSessionsUntouched ==
    [][\A v \in (DOMAIN sessions \cup DOMAIN sessions') \ {last'.user} :
          /\ v \in DOMAIN sessions
          /\ IF v \in DOMAIN sessions'
             THEN sessions'[v] = sessions[v]
             ELSE last'.swept /\ IdleTooLong(sessions[v], now)]_vars

C25_Witness ==
    /\ last.swept
    /\ last.user = 1
    /\ 2 \in DOMAIN sessions
    /\ sessions[2].step = "order_subject"
    /\ sessions[2].last_activity = now
    /\ last.size > Cardinality(DOMAIN sessions) + 1

\* C26: a sweep runs only when the store holds more than MAX_SESSIONS sessions
\* at a get.  At MAX_SESSIONS or fewer, an event that gets the sender's session
\* finds it however long it was idle, with its data, and resets its idle time:
\* the summary button, once acknowledged, leaves it as it was but for
\* last_activity, and a text in step order_subject continues the order with the
\* subject.
C26_SweepOnlyUnderPressure ==
    /\ last.swept => last.size > MAX_SESSIONS /\ ~IsButton(last.ev, <<"new_order">>)
    /\ (HadSession /\ last.size <= MAX_SESSIONS /\ ~AnswerFailed)
          => /\ IsButton(last.ev, <<"order_summary">>)
                   => sessions = [u \in {last.user} |->
                                     [last.pre[last.user] EXCEPT !.last_activity = now]]
                                 @@ sessions
             /\ (last.ev.kind = "text" /\ last.pre[last.user].step = "order_subject")
                   => /\ last.user \in DOMAIN sessions
                      /\ sessions[last.user] =
                             [last.pre[last.user] EXCEPT
                                 !.step = "order_level",
                                 !.data = DictUpdate(@, [subject |-> last.ev.body]),
                                 !.last_activity = now]

C26_Witness ==
    /\ IsButton(last.ev, <<"order_summary">>)
    /\ HadSession
    /\ last.size = MAX_SESSIONS
    /\ now - last.pre[last.user].last_activity > SESSION_TIMEOUT
    /\ last.user \in DOMAIN sessions
    /\ sessions[last.user].data = last.pre[last.user].data
    /\ "subject" \in DOMAIN sessions[last.user].data
    /\ sessions[last.user].last_activity = now

====
